---- MODULE Spec2Model ----
(***************************************************************************)
(* Model of scripts/train_metadata_extraction.py: the metadata extractor   *)
(* get_video_metadata (one ffprobe call per file, defensive parsing of its *)
(* JSON output) and the batch runner process_videos (directory filter,     *)
(* CSV header, one row per eligible file).                                 *)
(*                                                                         *)
(* Text is a sequence of one-character strings, so that lower(), endswith, *)
(* splitext, split('/') and the int()/float() parsers are computed, not    *)
(* assumed.  A Python value is a record [t, neg, num, scale, s]:           *)
(*   None, int (-1)^neg * num, float (-1)^neg * num / 10^scale (shortest   *)
(*   decimal, as repr() prints it), str s.                                 *)
(* A JSON value read from the probe output is a record [t, s, n]:          *)
(*   key absent, null, string s, integer number n.                         *)
(***************************************************************************)
EXTENDS Integers, Sequences, FiniteSets, TLC

VARIABLES
    dirKind,      \* the input path: "missing", "dir" or "file" (exists, not a directory)
    entries,      \* os.listdir(video_dir): the names, in enumeration order
    toolFound,    \* whether the ffprobe executable can be started
    outWritable,  \* whether open(output_csv, 'w') succeeds
    outBefore,    \* the output path on disk before the run: [exists, rows]
    outFile,      \* the output path on disk now: [exists, rows]
    outBuf,       \* rows handed to the csv writer and still in the buffer of the
                  \* open file object (a run of the model stays far below the
                  \* 8192 bytes that would flush it before the close)
    files,        \* the filtered list of process_videos
    idx,          \* number of loop iterations of process_videos started
    probes,       \* history: the paths handed to get_video_metadata, with the tool's outcome
    logs,         \* the logging records emitted, in order
    pc,           \* position of the run: "start", "loop", "returned", "raised"
    exc,          \* the exception that escaped process_videos, "none" if none
    xin,          \* extractor harness: the probe outcome handed to get_video_metadata
    xout,         \* extractor harness: what get_video_metadata produced
    xpc           \* extractor harness: "call" before, "done" after

vars == <<dirKind, entries, toolFound, outWritable, outBefore, outFile, outBuf, files,
          idx, probes, logs, pc, exc, xin, xout, xpc>>

runVars == <<dirKind, entries, toolFound, outWritable, outBefore, outFile, outBuf, files,
             idx, probes, logs, pc, exc>>

-----------------------------------------------------------------------------
(* Bounds of the model *)

\* longest directory listing
MaxEntries == 3
\* longest frame-rate string enumerated over RateChars
MaxRateLen == 4
\* longest stream list of a probe result
MaxStreams == 2

-----------------------------------------------------------------------------
(* Text *)

\* the lower-case form of one character (ASCII letters)
ToLower(c) ==
    CASE c = "A" -> "a" [] c = "B" -> "b" [] c = "C" -> "c" [] c = "D" -> "d"
      [] c = "E" -> "e" [] c = "F" -> "f" [] c = "G" -> "g" [] c = "H" -> "h"
      [] c = "I" -> "i" [] c = "J" -> "j" [] c = "K" -> "k" [] c = "L" -> "l"
      [] c = "M" -> "m" [] c = "N" -> "n" [] c = "O" -> "o" [] c = "P" -> "p"
      [] c = "Q" -> "q" [] c = "R" -> "r" [] c = "S" -> "s" [] c = "T" -> "t"
      [] c = "U" -> "u" [] c = "V" -> "v" [] c = "W" -> "w" [] c = "X" -> "x"
      [] c = "Y" -> "y" [] c = "Z" -> "z"
      [] OTHER -> c

\* str.lower()
Lower(s) == [i \in 1..Len(s) |-> ToLower(s[i])]

\* str.endswith(suffix)
EndsWith(s, suffix) ==
    /\ Len(s) >= Len(suffix)
    /\ SubSeq(s, Len(s) - Len(suffix) + 1, Len(s)) = suffix

\* str.rfind(c), 1-based; 0 when c does not occur
RFind(s, c) ==
    IF \E i \in 1..Len(s) : s[i] = c
    THEN CHOOSE i \in 1..Len(s) : s[i] = c /\ \A j \in (i+1)..Len(s) : s[j] # c
    ELSE 0

\* os.path.splitext(p)[0] (genericpath._splitext): the root ends before the
\* last dot after the last separator, unless only dots precede that dot.
SplitextRoot(p) ==
    LET sepIndex == RFind(p, "/")
        dotIndex == RFind(p, ".")
    IN  IF dotIndex > sepIndex
           /\ \E k \in (sepIndex + 1)..(dotIndex - 1) : p[k] # "."
        THEN SubSeq(p, 1, dotIndex - 1)
        ELSE p

\* str.split(sep) for a one-character separator
RECURSIVE Split(_, _)
Split(s, sep) ==
    IF \A i \in 1..Len(s) : s[i] # sep
    THEN <<s>>
    ELSE LET k == CHOOSE i \in 1..Len(s) :
                     s[i] = sep /\ \A j \in 1..(i-1) : s[j] # sep
         IN  <<SubSeq(s, 1, k - 1)>> \o Split(SubSeq(s, k + 1, Len(s)), sep)

\* str.strip() as int() and float() apply it (the model's only whitespace is " ")
RECURSIVE Strip(_)
Strip(s) ==
    IF s = <<>> THEN s
    ELSE IF s[1] = " " THEN Strip(Tail(s))
    ELSE IF s[Len(s)] = " " THEN Strip(SubSeq(s, 1, Len(s) - 1))
    ELSE s

Digits == {"0", "1", "2", "3", "4", "5", "6", "7", "8", "9"}

DigitVal(c) ==
    CASE c = "0" -> 0 [] c = "1" -> 1 [] c = "2" -> 2 [] c = "3" -> 3
      [] c = "4" -> 4 [] c = "5" -> 5 [] c = "6" -> 6 [] c = "7" -> 7
      [] c = "8" -> 8 [] c = "9" -> 9

\* a digit group of a Python numeric literal: digits, single "_" between digits
IsDigitGroup(s) ==
    /\ s # <<>>
    /\ \A i \in 1..Len(s) : s[i] \in Digits \/ s[i] = "_"
    /\ s[1] \in Digits
    /\ s[Len(s)] \in Digits
    /\ \A i \in 1..(Len(s) - 1) : ~(s[i] = "_" /\ s[i+1] = "_")

\* the digits of a digit group, "_" dropped
RECURSIVE DigitsOf(_)
DigitsOf(s) ==
    IF s = <<>> THEN <<>>
    ELSE IF s[1] = "_" THEN DigitsOf(Tail(s))
    ELSE <<s[1]>> \o DigitsOf(Tail(s))

\* the natural number a digit sequence denotes
RECURSIVE NatOf(_)
NatOf(ds) ==
    IF ds = <<>> THEN 0
    ELSE 10 * NatOf(SubSeq(ds, 1, Len(ds) - 1)) + DigitVal(ds[Len(ds)])

HasSign(s) == s # <<>> /\ s[1] \in {"+", "-"}
Unsigned(s) == IF HasSign(s) THEN Tail(s) ELSE s
IsNegative(s) == s # <<>> /\ s[1] = "-"

-----------------------------------------------------------------------------
(* Python values *)

PyNone == [t |-> "none", neg |-> FALSE, num |-> 0, scale |-> 0, s |-> <<>>]
PyInt(n) == [t |-> "int", neg |-> n < 0, num |-> IF n < 0 THEN -n ELSE n,
             scale |-> 0, s |-> <<>>]
PyStr(str) == [t |-> "str", neg |-> FALSE, num |-> 0, scale |-> 0, s |-> str]

\* a float written as its shortest decimal: trailing zeros of the fraction dropped
RECURSIVE PyFloat(_, _, _)
PyFloat(neg, num, scale) ==
    IF scale > 0 /\ num % 10 = 0
    THEN PyFloat(neg, num \div 10, scale - 1)
    ELSE [t |-> "float", neg |-> neg, num |-> num, scale |-> scale, s |-> <<>>]

IntOf(v) == IF v.neg THEN -v.num ELSE v.num

-----------------------------------------------------------------------------
(* JSON values of the probe output *)

JAbsent == [t |-> "absent", s |-> <<>>, n |-> 0]
JNull == [t |-> "null", s |-> <<>>, n |-> 0]
JStr(str) == [t |-> "str", s |-> str, n |-> 0]
JNum(k) == [t |-> "num", s |-> <<>>, n |-> k]

\* dict.get(key, default)
Get(j, default) == IF j.t = "absent" THEN default ELSE j

Ok(v) == [exc |-> "none", v |-> v]
Fail(e) == [exc |-> e, v |-> PyNone]

\* int(x) for a str
IntOfStr(s) ==
    LET t == Strip(s)
        body == Unsigned(t)
    IN  IF IsDigitGroup(body)
        THEN Ok(PyInt(IF IsNegative(t) THEN -NatOf(DigitsOf(body))
                      ELSE NatOf(DigitsOf(body))))
        ELSE Fail("ValueError")

\* int(x): a str is parsed, an int is itself, None has no int()
py_int(j) ==
    CASE j.t = "str" -> IntOfStr(j.s)
      [] j.t = "num" -> Ok(PyInt(j.n))
      [] OTHER -> Fail("TypeError")

\* float(x) for a str made of sign, digits, "_", "." and blanks
FloatOfStr(s) ==
    LET t == Strip(s)
        body == Unsigned(t)
        dot == RFind(body, ".")
        ip == IF dot = 0 THEN body ELSE SubSeq(body, 1, dot - 1)
        fp == IF dot = 0 THEN <<>> ELSE SubSeq(body, dot + 1, Len(body))
        wellFormed ==
            /\ ip = <<>> \/ IsDigitGroup(ip)
            /\ fp = <<>> \/ IsDigitGroup(fp)
            /\ ip # <<>> \/ fp # <<>>
    IN  IF wellFormed
        THEN Ok(PyFloat(IsNegative(t), NatOf(DigitsOf(ip) \o DigitsOf(fp)),
                        Len(DigitsOf(fp))))
        ELSE Fail("ValueError")

\* float(x)
py_float(j) ==
    CASE j.t = "str" -> FloatOfStr(j.s)
      [] j.t = "num" -> Ok(PyFloat(j.n < 0, IF j.n < 0 THEN -j.n ELSE j.n, 0))
      [] OTHER -> Fail("TypeError")

-----------------------------------------------------------------------------
(* round(n / d, 2) *)

Abs(x) == IF x < 0 THEN -x ELSE x

\* 52 further quotient bits of r / b after the leading one: the remainder left
\* and the last bit produced
RECURSIVE MantissaTail(_, _, _, _)
MantissaTail(r, b, k, last) ==
    IF k = 0 THEN [r |-> r, last |-> last]
    ELSE IF 2 * r >= b THEN MantissaTail(2 * r - b, b, k - 1, 1)
    ELSE MantissaTail(2 * r, b, k - 1, 0)

\* a / b scaled by a power of two into [1, 2)
RECURSIVE ScaleUp(_, _)
ScaleUp(a, b) == IF a >= b THEN a ELSE ScaleUp(2 * a, b)
RECURSIVE ScaleDown(_, _)
ScaleDown(a, b) == IF 2 * b > a THEN b ELSE ScaleDown(a, 2 * b)

\* the double nearest to a / b (a, b > 0; int / int is correctly rounded, ties
\* to even) compared with a / b itself: 1 above, 0 equal, -1 below
FloatError(a, b) ==
    LET a1 == ScaleUp(a, b)
        b1 == ScaleDown(a1, b)
        m == MantissaTail(a1 - b1, b1, 52, 1)
    IN  IF m.r = 0 THEN 0
        ELSE IF 2 * m.r > b1 \/ (2 * m.r = b1 /\ m.last = 1) THEN 1
        ELSE -1

\* round() replaced by truncation toward zero
PyRound2_Truncates(n, d) ==
    PyFloat((n < 0) # (d < 0), (100 * Abs(n)) \div Abs(d), 2)

\* round(n / d, 2) for ints n, d with d # 0: the hundredth nearest to the
\* double n / d; that double is n / d exactly only when it is a binary
\* fraction, and only then can it lie halfway, where round() goes to even
PyRound2(n, d) ==
    LET a == Abs(n)
        b == Abs(d)
        q == (100 * a) \div b
        r == (100 * a) % b
        up == IF 2 * r > b THEN TRUE
              ELSE IF 2 * r < b THEN FALSE
              ELSE LET e == FloatError(a, b)
                   IN  IF e = 0 THEN q % 2 = 1 ELSE e = 1
    IN  PyFloat((n < 0) # (d < 0), IF up THEN q + 1 ELSE q, 2)

-----------------------------------------------------------------------------
(* get_video_metadata *)

MetaDefaults ==
    [duration |-> PyNone, width |-> PyNone, height |-> PyNone, fps |-> PyNone,
     has_audio |-> PyInt(0), bitrate |-> PyNone]

\* the exception classes of the except clause
CaughtExceptions == {"CalledProcessError", "ValueError", "KeyError", "ZeroDivisionError"}

\* next((s for s in streams if s.get('codec_type') == ty), default): the index
\* of the first stream of that type, 0 for the default
FirstOfType(streams, ty) ==
    IF \E i \in 1..Len(streams) : streams[i].codec_type = ty
    THEN CHOOSE i \in 1..Len(streams) :
             /\ streams[i].codec_type = ty
             /\ \A j \in 1..(i-1) : streams[j].codec_type # ty
    ELSE 0

\* the fps branch without the test for a zero denominator
FpsOf_NoZeroCheck(rate) ==
    LET r == Get(rate, JStr(<<"0", "/", "1">>))
    IN  IF r.t # "str" THEN Fail("AttributeError")
        ELSE LET fps_parts == Split(r.s, "/")
             IN  IF Len(fps_parts) = 2
                 THEN LET den == py_int(JStr(fps_parts[2]))
                          nu == py_int(JStr(fps_parts[1]))
                      IN  IF nu.exc # "none" THEN Fail(nu.exc)
                          ELSE IF den.exc # "none" THEN Fail(den.exc)
                          ELSE IF IntOf(den.v) = 0 THEN Fail("ZeroDivisionError")
                          ELSE Ok(PyRound2(IntOf(nu.v), IntOf(den.v)))
                 ELSE Ok(PyInt(0))

\* the fps branch: split the rate on '/', divide when there are two parts and
\* the denominator is not 0, else the int 0
FpsOf(rate) ==
    LET r == Get(rate, JStr(<<"0", "/", "1">>))
    IN  IF r.t # "str" THEN Fail("AttributeError")
        ELSE LET fps_parts == Split(r.s, "/")
             IN  IF Len(fps_parts) = 2
                 THEN LET den == py_int(JStr(fps_parts[2]))
                      IN  IF den.exc # "none" THEN Fail(den.exc)
                          ELSE IF IntOf(den.v) # 0
                          THEN LET nu == py_int(JStr(fps_parts[1]))
                               IN  IF nu.exc # "none" THEN Fail(nu.exc)
                                   ELSE Ok(PyRound2(IntOf(nu.v), IntOf(den.v)))
                          ELSE Ok(PyInt(0))
                 ELSE Ok(PyInt(0))

\* bitrate assigned before duration
SetFormat_BitrateFirst(m, info) ==
    LET dur == IF info.hasFormat THEN info.duration ELSE JAbsent
        br == IF info.hasFormat THEN info.bit_rate ELSE JAbsent
        b == py_int(Get(br, JNum(0)))
    IN  IF b.exc # "none" THEN [exc |-> b.exc, meta |-> m]
        ELSE LET m1 == [m EXCEPT !.bitrate = b.v]
                 d == py_float(Get(dur, JNum(0)))
             IN  IF d.exc # "none" THEN [exc |-> d.exc, meta |-> m1]
                 ELSE [exc |-> "none", meta |-> [m1 EXCEPT !.duration = d.v]]

\* duration, then bitrate, from info.get('format', {})
SetFormat(m, info) ==
    LET dur == IF info.hasFormat THEN info.duration ELSE JAbsent
        br == IF info.hasFormat THEN info.bit_rate ELSE JAbsent
        d == py_float(Get(dur, JNum(0)))
    IN  IF d.exc # "none" THEN [exc |-> d.exc, meta |-> m]
        ELSE LET m1 == [m EXCEPT !.duration = d.v]
                 b == py_int(Get(br, JNum(0)))
             IN  IF b.exc # "none" THEN [exc |-> b.exc, meta |-> m1]
                 ELSE [exc |-> "none", meta |-> [m1 EXCEPT !.bitrate = b.v]]

\* width, height, then fps, of the first video stream, if there is one
SetVideo(m, streams) ==
    LET vi == FirstOfType(streams, "video")
    IN  IF vi = 0 THEN [exc |-> "none", meta |-> m]
        ELSE LET w == py_int(Get(streams[vi].width, JNum(0)))
             IN  IF w.exc # "none" THEN [exc |-> w.exc, meta |-> m]
                 ELSE LET m1 == [m EXCEPT !.width = w.v]
                          h == py_int(Get(streams[vi].height, JNum(0)))
                      IN  IF h.exc # "none" THEN [exc |-> h.exc, meta |-> m1]
                          ELSE LET m2 == [m1 EXCEPT !.height = h.v]
                                   f == FpsOf(streams[vi].r_frame_rate)
                               IN  IF f.exc # "none" THEN [exc |-> f.exc, meta |-> m2]
                                   ELSE [exc |-> "none", meta |-> [m2 EXCEPT !.fps = f.v]]

\* has_audio taken from the first stream only
SetAudio_FirstStreamOnly(m, streams) ==
    [m EXCEPT !.has_audio = IF streams # <<>> /\ streams[1].codec_type = "audio"
                            THEN PyInt(1) ELSE PyInt(0)]

\* has_audio = 1 if audio_stream else 0
SetAudio(m, streams) ==
    [m EXCEPT !.has_audio = IF FirstOfType(streams, "audio") # 0 THEN PyInt(1) ELSE PyInt(0)]

\* how the routine is left with exception e pending and the record at m: a
\* caught class is logged and the record returned, any other class propagates
Leave(video_path, e, m) ==
    IF e \in CaughtExceptions
    THEN [raised |-> "none", meta |-> m,
          log |-> <<[level |-> "ERROR", msg |-> "Error procesando", about |-> video_path,
                     detail |-> e]>>]
    ELSE [raised |-> e, meta |-> m, log |-> <<>>]

\* get_video_metadata(video_path), given what the ffprobe call does for the file
get_video_metadata(video_path, outcome) ==
    IF outcome.kind = "notfound" THEN Leave(video_path, "FileNotFoundError", MetaDefaults)
    ELSE IF outcome.kind = "nonzero" THEN Leave(video_path, "CalledProcessError", MetaDefaults)
    ELSE IF outcome.kind = "unparseable" THEN Leave(video_path, "ValueError", MetaDefaults)
    ELSE IF ~outcome.info.isObject THEN Leave(video_path, "AttributeError", MetaDefaults)
    ELSE LET a == SetFormat(MetaDefaults, outcome.info)
         IN  IF a.exc # "none" THEN Leave(video_path, a.exc, a.meta)
             ELSE LET b == SetVideo(a.meta, outcome.info.streams)
                  IN  IF b.exc # "none" THEN Leave(video_path, b.exc, b.meta)
                      ELSE [raised |-> "none",
                            meta |-> SetAudio(b.meta, outcome.info.streams),
                            log |-> <<>>]

-----------------------------------------------------------------------------
(* Inputs *)

\* directory entry names
Names ==
    { <<"c", "l", "i", "p", "_", "1", ".", "m", "p", "4">>,
      <<"C", "L", "I", "P", "_", "2", ".", "M", "P", "4">>,
      <<"n", "o", "t", "e", "s", ".", "t", "x", "t">>,
      <<".", "m", "p", "4">>,
      <<"a", ".", "b", ".", "M", "p", "4">>,
      <<"m", "p", "4">> }

\* the sequences over S of length at most n
SeqsUpTo(S, n) == UNION {[1..k -> S] : k \in 0..n}

\* directory listings: distinct names, at most MaxEntries of them
Listings ==
    {l \in SeqsUpTo(Names, MaxEntries) : \A i, j \in 1..Len(l) : i # j => l[i] # l[j]}

NoFile == [exists |-> FALSE, rows |-> <<>>]
\* an output file left by an earlier run
OldFile == [exists |-> TRUE, rows |-> << <<PyStr(<<"o", "l", "d">>)>> >>]

Stream(ty, w, h, r) == [codec_type |-> ty, width |-> w, height |-> h, r_frame_rate |-> r]
AudioStream == Stream("audio", JAbsent, JAbsent, JStr(<<"0", "/", "0">>))
OtherStream == Stream("subtitle", JAbsent, JAbsent, JStr(<<"0", "/", "0">>))
UntypedStream == Stream("absent", JAbsent, JAbsent, JAbsent)

Info(d, b, ss) == [isObject |-> TRUE, hasFormat |-> TRUE, duration |-> d, bit_rate |-> b,
                   streams |-> ss]
NoFormatInfo(ss) == [isObject |-> TRUE, hasFormat |-> FALSE, duration |-> JAbsent,
                     bit_rate |-> JAbsent, streams |-> ss]
\* valid JSON that is not an object (null)
NotAnObject == [isObject |-> FALSE, hasFormat |-> FALSE, duration |-> JAbsent,
                bit_rate |-> JAbsent, streams |-> <<>>]

NotFound == [kind |-> "notfound", info |-> NotAnObject]
NonZeroExit == [kind |-> "nonzero", info |-> NotAnObject]
Unparseable == [kind |-> "unparseable", info |-> NotAnObject]
Parsed(i) == [kind |-> "parsed", info |-> i]

GoodDuration == JStr(<<"1", "2", ".", "5">>)
GoodBitrate == JStr(<<"8", "0", "0">>)
NtscRate == JStr(<<"3", "0", "0", "0", "0", "/", "1", "0", "0", "1">>)
GoodVideo == Stream("video", JNum(640), JNum(360), NtscRate)

\* characters of the enumerated frame-rate strings
RateChars == {"0", "1", "4", "8", "/", "x", "-", " "}

\* further rate fields: the NTSC rate, digit separator and sign, no rate
\* field, and fields that are not strings
ExtraRates == {NtscRate, JStr(<<"1", "_", "0", "/", "4">>), JStr(<<"+", "8", "/", "1">>), JAbsent, JNull, JNum(30)}

\* a probe result whose video stream has the rate field r, with or without an
\* audio stream before it
RateInfo(r, audioFirst) ==
    Info(GoodDuration, GoodBitrate,
         IF audioFirst
         THEN <<AudioStream, Stream("video", JNum(640), JNum(360), r)>>
         ELSE <<Stream("video", JNum(640), JNum(360), r)>>)

DurationValues == {JAbsent, GoodDuration, JStr(<<"x">>), JNull}
BitrateValues == {JAbsent, GoodBitrate, JStr(<<"1", ".", "5">>), JNull}
\* the streams of the probe results that vary every field
FieldStreams ==
    {Stream("video", w, h, r) :
        w \in {JNum(640), JStr(<<"x">>), JAbsent},
        h \in {JNum(360), JNull},
        r \in {JStr(<<"3", "0", "/", "1">>), JStr(<<"1", "/", "x">>), JStr(<<"3", "0", "/", "0">>)}}
        \cup {AudioStream, OtherStream, UntypedStream}

\* probe results of the batch run
BatchInfos ==
    { Info(GoodDuration, GoodBitrate, <<GoodVideo, AudioStream>>),
      Info(GoodDuration, JStr(<<"1", ".", "5">>), <<GoodVideo, AudioStream>>),
      Info(JNull, GoodBitrate, <<GoodVideo>>) }

\* what the ffprobe call of one file can do in a run: without the executable
\* every call fails to start
BatchOutcomes(found) ==
    IF found THEN {NonZeroExit, Unparseable} \cup {Parsed(i) : i \in BatchInfos}
    ELSE {NotFound}

-----------------------------------------------------------------------------
(* process_videos *)

VideoExt == <<".", "m", "p", "4">>

\* the filter without lower(): only the lower-case extension passes
IsVideoName_CaseSensitive(f) == EndsWith(f, VideoExt)

\* f.lower().endswith('.mp4')
IsVideoName(f) == EndsWith(Lower(f), VideoExt)

Header ==
    << PyStr(<<"I", "d">>), PyStr(<<"d", "u", "r", "a", "t", "i", "o", "n">>), PyStr(<<"w", "i", "d", "t", "h">>), PyStr(<<"h", "e", "i", "g", "h", "t">>),
       PyStr(<<"f", "p", "s">>), PyStr(<<"h", "a", "s", "_", "a", "u", "d", "i", "o">>), PyStr(<<"b", "i", "t", "r", "a", "t", "e">>) >>

\* the row written for one file
Row(f, meta) ==
    << PyStr(SplitextRoot(f)), meta.duration, meta.width, meta.height, meta.fps,
       meta.has_audio, meta.bitrate >>

LogRec(level, msg, about, detail) ==
    [level |-> level, msg |-> msg, about |-> about, detail |-> detail]

\* the output opened, and the header written, before the existence check
StartRun_OpensFirst ==
    /\ pc = "start"
    /\ IF ~outWritable
       THEN /\ pc' = "raised"
            /\ exc' = "OSError"
            /\ UNCHANGED <<files, outFile, outBuf, logs>>
       ELSE IF dirKind = "missing"
       THEN /\ outFile' = [exists |-> TRUE, rows |-> <<Header>>]
            /\ logs' = Append(logs, LogRec("ERROR", "El directorio de videos no existe",
                                           <<>>, "none"))
            /\ pc' = "returned"
            /\ UNCHANGED <<files, outBuf, exc>>
       ELSE IF dirKind = "file"
       THEN /\ outFile' = [exists |-> TRUE, rows |-> <<Header>>]
            /\ pc' = "raised"
            /\ exc' = "NotADirectoryError"
            /\ UNCHANGED <<files, outBuf, logs>>
       ELSE /\ outFile' = [exists |-> TRUE, rows |-> <<>>]
            /\ outBuf' = <<Header>>
            /\ files' = SelectSeq(entries, IsVideoName)
            /\ logs' = Append(logs, LogRec("INFO", "Encontrados", <<>>, "none"))
            /\ pc' = "loop"
            /\ exc' = exc
    /\ UNCHANGED <<dirKind, entries, toolFound, outWritable, outBefore, idx, probes,
                   xin, xout, xpc>>

\* from the call to the first loop iteration: the existence check, the listing
\* and its filter, the open that creates or truncates the path, the header
\* row handed to the writer (it stays in the buffer: the path is empty on disk)
StartRun ==
    /\ pc = "start"
    /\ IF dirKind = "missing"
       THEN /\ logs' = Append(logs, LogRec("ERROR", "El directorio de videos no existe",
                                           <<>>, "none"))
            /\ pc' = "returned"
            /\ UNCHANGED <<files, outFile, outBuf, exc>>
       ELSE IF dirKind = "file"
       THEN /\ pc' = "raised"
            /\ exc' = "NotADirectoryError"
            /\ UNCHANGED <<files, outFile, outBuf, logs>>
       ELSE /\ files' = SelectSeq(entries, IsVideoName)
            /\ logs' = Append(logs, LogRec("INFO", "Encontrados", <<>>, "none"))
            /\ IF outWritable
               THEN /\ outFile' = [exists |-> TRUE, rows |-> <<>>]
                    /\ outBuf' = <<Header>>
                    /\ pc' = "loop"
                    /\ exc' = exc
               ELSE /\ pc' = "raised"
                    /\ exc' = "OSError"
                    /\ UNCHANGED <<outFile, outBuf>>
    /\ UNCHANGED <<dirKind, entries, toolFound, outWritable, outBefore, idx, probes,
                   xin, xout, xpc>>

\* one loop iteration: the id, the extractor call, the row handed to the
\* writer; an exception that escapes the extractor leaves the with block,
\* which closes the file: the buffered rows reach the disk
ProcessFile ==
    /\ pc = "loop"
    /\ idx < Len(files)
    /\ \E outcome \in BatchOutcomes(toolFound) :
          LET f == files[idx + 1]
              r == get_video_metadata(f, outcome)
          IN  /\ idx' = idx + 1
              /\ probes' = Append(probes, [name |-> f, outcome |-> outcome])
              /\ logs' = logs \o r.log
              /\ IF r.raised = "none"
                 THEN /\ outBuf' = Append(outBuf, Row(f, r.meta))
                      /\ UNCHANGED <<outFile, pc, exc>>
                 ELSE /\ pc' = "raised"
                      /\ exc' = r.raised
                      /\ outFile' = [outFile EXCEPT !.rows = @ \o outBuf]
                      /\ outBuf' = <<>>
    /\ UNCHANGED <<dirKind, entries, toolFound, outWritable, outBefore, files,
                   xin, xout, xpc>>

\* the loop is over: the with block is left, the file is closed and the
\* buffered header and rows reach the disk; the completion message is logged
FinishRun ==
    /\ pc = "loop"
    /\ idx = Len(files)
    /\ logs' = Append(logs, LogRec("INFO", "Extraccion completada", <<>>, "none"))
    /\ pc' = "returned"
    /\ outFile' = [outFile EXCEPT !.rows = @ \o outBuf]
    /\ outBuf' = <<>>
    /\ UNCHANGED <<dirKind, entries, toolFound, outWritable, outBefore, files,
                   idx, probes, exc, xin, xout, xpc>>

Init ==
    /\ dirKind \in {"missing", "dir", "file"}
    /\ entries \in Listings
    /\ dirKind # "dir" => entries = <<>>
    /\ toolFound \in BOOLEAN
    /\ outWritable \in BOOLEAN
    /\ outBefore \in {NoFile, OldFile}
    /\ outFile = outBefore
    /\ outBuf = <<>>
    /\ files = <<>>
    /\ idx = 0
    /\ probes = <<>>
    /\ logs = <<>>
    /\ pc = "start"
    /\ exc = "none"
    /\ xin = NonZeroExit
    /\ xout = get_video_metadata(<<>>, NonZeroExit)
    /\ xpc = "idle"

Next == StartRun \/ ProcessFile \/ FinishRun

Spec == Init /\ [][Next]_vars

-----------------------------------------------------------------------------
(* get_video_metadata called on its own, once: on each way the ffprobe call *)
(* can fail, on probe results with every frame-rate string over RateChars  *)
(* up to MaxRateLen, and on probe results that vary every field and a      *)
(* stream list of up to MaxStreams streams                                 *)

HarnessPath == <<"v", ".", "m", "p", "4">>

ExtractCall ==
    /\ xpc = "call"
    /\ xout' = get_video_metadata(HarnessPath, xin)
    /\ xpc' = "done"
    /\ UNCHANGED <<runVars, xin>>

InitExtract ==
    /\ dirKind = "dir"
    /\ entries = <<>>
    /\ toolFound = TRUE
    /\ outWritable = TRUE
    /\ outBefore = NoFile
    /\ outFile = NoFile
    /\ outBuf = <<>>
    /\ files = <<>>
    /\ idx = 0
    /\ probes = <<>>
    /\ logs = <<>>
    /\ pc = "idle"
    /\ exc = "none"
    /\ \/ xin \in {NotFound, NonZeroExit, Unparseable, Parsed(NotAnObject)}
       \/ \E k \in 0..MaxRateLen : \E s \in [1..k -> RateChars] : \E a \in BOOLEAN :
              xin = Parsed(RateInfo(JStr(s), a))
       \/ \E r \in ExtraRates : \E a \in BOOLEAN :
              xin = Parsed(RateInfo(r, a))
       \/ \E k \in 0..MaxStreams : \E ss \in [1..k -> FieldStreams] :
              \/ \E d \in DurationValues : \E b \in BitrateValues :
                     xin = Parsed(Info(d, b, ss))
              \/ xin = Parsed(NoFormatInfo(ss))
    /\ xout = [raised |-> "none", meta |-> MetaDefaults, log |-> <<>>]
    /\ xpc = "call"

NextExtract == ExtractCall

SpecExtract == InitExtract /\ [][NextExtract]_vars

-----------------------------------------------------------------------------
(* Properties of the batch run (specification Spec) *)

\* a name whose last four characters are ".mp4" in any letter case
EndsInMp4(f) ==
    /\ Len(f) >= 4
    /\ f[Len(f) - 3] = "."
    /\ f[Len(f) - 2] \in {"m", "M"}
    /\ f[Len(f) - 1] \in {"p", "P"}
    /\ f[Len(f)] = "4"

EligibleCount == Cardinality({i \in 1..Len(entries) : EndsInMp4(entries[i])})

\* the eligible entries in enumeration order
RECURSIVE EligibleOf(_)
EligibleOf(l) ==
    IF l = <<>> THEN <<>>
    ELSE IF EndsInMp4(l[1]) THEN <<l[1]>> \o EligibleOf(Tail(l))
    ELSE EligibleOf(Tail(l))

\* the run got as far as opening the output
Opened == dirKind = "dir" /\ outWritable /\ pc # "start"
\* the call of process_videos is over, by return or by an escaping exception
Finished == pc \in {"returned", "raised"}
\* once the output is open: every row handed to the csv writer so far, those
\* already on disk and then those still buffered; the header is the first
Written == outFile.rows \o outBuf
\* the data rows handed to the writer so far
DataRows == Tail(Written)
\* the data rows of the table on disk
DiskDataRows == Tail(outFile.rows)
FailedEntirely == {"notfound", "nonzero", "unparseable"}
DefaultCells == <<PyNone, PyNone, PyNone, PyNone, PyInt(0), PyNone>>

\* C1: when process_videos is over, the number of data rows of the output
\* table equals the number of directory entries ending in ".mp4" (any case),
\* whatever the extraction outcomes of the files were.
C1_RowPerEligibleEntry ==
    (Opened /\ Finished) => Len(DiskDataRows) = EligibleCount

\* C3: every file whose extraction failed entirely (tool not found, non-zero
\* exit, unparseable output) has its row handed to the writer, with duration,
\* width, height, fps and bitrate None and has_audio 0, and that row is in
\* the table on disk when the run is over.
C3_FailedFileHasDefaultRow ==
    \A k \in 1..Len(probes) :
        probes[k].outcome.kind \in FailedEntirely =>
            /\ Len(DataRows) >= k
            /\ SubSeq(DataRows[k], 2, 7) = DefaultCells
            /\ Finished =>
                  /\ Len(DiskDataRows) >= k
                  /\ SubSeq(DiskDataRows[k], 2, 7) = DefaultCells

\* C4: with the input directory missing the run logs one error and returns:
\* the output path is as it was before the run (not created, not truncated),
\* the extractor is never called and no exception escapes.
C4_MissingDirIsNoOp ==
    dirKind = "missing" =>
        /\ outFile = outBefore
        /\ outBuf = <<>>
        /\ probes = <<>>
        /\ exc = "none"
        /\ pc \in {"start", "returned"}
        /\ pc = "returned" =>
              /\ Len(logs) = 1
              /\ logs[1].level = "ERROR"

C4_Witness ==
    /\ dirKind = "missing"
    /\ pc = "returned"
    /\ outBefore = OldFile
    /\ outFile = OldFile

\* C5 as stated: in a run that returns, the ids of the data rows on disk are,
\* in order, the names of the entries ending in ".mp4" (any case) with those last
\* four characters removed, the letter case kept, also for the name ".mp4";
\* entries not ending so have no row.
C5_IdIsNameMinusExtension ==
    (Opened /\ pc = "returned") =>
        /\ Len(DiskDataRows) = Len(EligibleOf(entries))
        /\ \A k \in 1..Len(DiskDataRows) :
              LET f == EligibleOf(entries)[k]
              IN  DiskDataRows[k][1] = PyStr(SubSeq(f, 1, Len(f) - 4))

\* the id the rows carry: the name without its last four characters when some
\* character other than "." precedes them, else the whole name
IdOfName(f) ==
    IF \E i \in 1..(Len(f) - 4) : f[i] # "."
    THEN SubSeq(f, 1, Len(f) - 4)
    ELSE f

\* C5 amended: at every point of a run the data rows handed to the writer
\* are, in order, rows of the first entries ending in ".mp4" (any case), and
\* when the run has returned the table on disk has one for each of them and
\* none for any other entry; the Id keeps the letter case and is the name
\* minus the extension, except that a name with nothing but dots before "mp4"
\* (".mp4") is its own Id.
C5_IdIsSplitextRoot ==
    Opened =>
        /\ Len(DataRows) <= Len(EligibleOf(entries))
        /\ \A k \in 1..Len(DataRows) :
              DataRows[k][1] = PyStr(IdOfName(EligibleOf(entries)[k]))
        /\ pc = "returned" =>
              /\ Len(DiskDataRows) = Len(EligibleOf(entries))
              /\ \A k \in 1..Len(DiskDataRows) :
                    DiskDataRows[k][1] = PyStr(IdOfName(EligibleOf(entries)[k]))

C5_Witness ==
    /\ pc = "returned"
    /\ entries = << <<"c", "l", "i", "p", "_", "1", ".", "m", "p", "4">>,
                    <<"C", "L", "I", "P", "_", "2", ".", "M", "P", "4">>,
                    <<"n", "o", "t", "e", "s", ".", "t", "x", "t">> >>
    /\ Len(DiskDataRows) = 2
    /\ DiskDataRows[1][1] = PyStr(<<"c", "l", "i", "p", "_", "1">>)
    /\ DiskDataRows[2][1] = PyStr(<<"C", "L", "I", "P", "_", "2">>)

\* C9: the header row is the first row handed to the writer and occurs once;
\* the k-th data row is the row of the k-th eligible entry; a file's row is
\* handed over before the next file is probed; and when the run is over every
\* eligible file has been probed exactly once.
C9_HeaderOrderAndSingleProbe ==
    Opened =>
        /\ Written # <<>>
        /\ Written[1] = Header
        /\ \A k \in 2..Len(Written) : Written[k] # Header
        /\ Len(DataRows) <= Len(files)
        /\ \A k \in 1..Len(DataRows) : probes[k].name = files[k]
        /\ Len(probes) - Len(DataRows) \in {0, 1}
        /\ Finished =>
              \A i \in 1..Len(files) :
                  Cardinality({k \in 1..Len(probes) : probes[k].name = files[i]}) = 1

\* What holds of every run, returned or not: the header first and once, the
\* rows and the probes prefixes of the eligible list, no file probed twice;
\* the path is empty on disk while the loop runs and holds every row handed
\* to the writer once the run is over.
RunOrderInv ==
    Opened =>
        /\ Written # <<>>
        /\ Written[1] = Header
        /\ \A k \in 2..Len(Written) : Written[k] # Header
        /\ Len(probes) = idx
        /\ idx <= Len(files)
        /\ \A k \in 1..Len(probes) : probes[k].name = files[k]
        /\ Len(DataRows) = (IF pc = "raised" THEN idx - 1 ELSE idx)
        /\ \A k \in 1..Len(DataRows) : DataRows[k][1] = PyStr(SplitextRoot(files[k]))
        /\ pc = "returned" => idx = Len(files)
        /\ pc = "loop" => outFile = [exists |-> TRUE, rows |-> <<>>]
        /\ Finished => outBuf = <<>>

\* between two steps of a run the rows handed to the writer only grow, by
\* appending
WrittenOnlyGrows ==
    [][(Opened /\ Opened') =>
          /\ Len(Written') >= Len(Written)
          /\ SubSeq(Written', 1, Len(Written)) = Written]_vars

-----------------------------------------------------------------------------
(* Properties of get_video_metadata (specification SpecExtract) *)

Returned == xpc = "done" /\ xout.raised = "none"
XInfo == xin.info
ParsedObject == xin.kind = "parsed" /\ XInfo.isObject
HasAudioStream == \E i \in 1..Len(XInfo.streams) : XInfo.streams[i].codec_type = "audio"
HasVideoStream == \E i \in 1..Len(XInfo.streams) : XInfo.streams[i].codec_type = "video"
VideoStream == XInfo.streams[FirstOfType(XInfo.streams, "video")]

\* the conversions of the fields, in the order the routine makes them
DurationConv ==
    py_float(Get(IF XInfo.hasFormat THEN XInfo.duration ELSE JAbsent, JNum(0)))
BitrateConv ==
    py_int(Get(IF XInfo.hasFormat THEN XInfo.bit_rate ELSE JAbsent, JNum(0)))
WidthConv == py_int(Get(VideoStream.width, JNum(0)))
HeightConv == py_int(Get(VideoStream.height, JNum(0)))

\* a video stream was found and the routine got to its rate field
ReachedRate ==
    /\ ParsedObject
    /\ DurationConv.exc = "none"
    /\ BitrateConv.exc = "none"
    /\ HasVideoStream
    /\ WidthConv.exc = "none"
    /\ HeightConv.exc = "none"

RateParts == Split(VideoStream.r_frame_rate.s, "/")
IsIntText(s) == IntOfStr(s).exc = "none"
IntValue(s) == IntOf(IntOfStr(s).v)
\* the rate is a string "n/d" of two integers with d # 0
RateIsFraction ==
    /\ VideoStream.r_frame_rate.t = "str"
    /\ Len(RateParts) = 2
    /\ IsIntText(RateParts[1])
    /\ IsIntText(RateParts[2])
    /\ IntValue(RateParts[2]) # 0

\* a float of at most two decimals, in hundredths
Hundredths(v) ==
    v.num * (IF v.scale = 0 THEN 100 ELSE IF v.scale = 1 THEN 10 ELSE 1)

\* C2: get_video_metadata never raises: whatever the subprocess call, the
\* parsing and the field conversions do, a record is returned.
C2_NeverRaises ==
    xpc = "done" => xout.raised = "none"

\* C6 as stated: for every parsed probe result has_audio is 1 when the stream
\* list holds an audio entry and 0 when it holds none, whatever the other
\* fields contain.
C6_HasAudioIffAudioStream ==
    (Returned /\ ParsedObject) =>
        /\ xout.meta.has_audio \in {PyInt(0), PyInt(1)}
        /\ xout.meta.has_audio = PyInt(1) <=> HasAudioStream

\* C6 amended: has_audio of the returned record is 0 or 1, and it is 1 exactly
\* when the probe result was parsed, no error was caught on the way to the
\* last assignment, and the stream list holds an audio entry.
C6_HasAudioUnlessErrorCaught ==
    Returned =>
        /\ xout.meta.has_audio \in {PyInt(0), PyInt(1)}
        /\ xout.meta.has_audio = PyInt(1) <=>
              (ParsedObject /\ xout.log = <<>> /\ HasAudioStream)

C6_Witness ==
    /\ Returned
    /\ ParsedObject
    /\ Len(XInfo.streams) >= 2
    /\ XInfo.streams[1].codec_type = "video"
    /\ HasAudioStream
    /\ xout.meta.has_audio = PyInt(1)

\* C7: when the rate of the found video stream is "n/d" with integers n, d and
\* d # 0, fps is a float of two decimals at most half a hundredth away from
\* n / d, with the sign of n / d; "30000/1001" gives 29.97.
C7_FpsIsRoundedQuotient ==
    (xpc = "done" /\ ReachedRate /\ RateIsFraction) =>
        LET n == IntValue(RateParts[1])
            d == IntValue(RateParts[2])
            fps == xout.meta.fps
        IN  /\ xout.raised = "none"
            /\ fps.t = "float"
            /\ fps.scale <= 2
            /\ 2 * Abs(100 * Abs(n) - Hundredths(fps) * Abs(d)) <= Abs(d)
            /\ fps.neg = ((n < 0) # (d < 0))
            /\ VideoStream.r_frame_rate = NtscRate => fps = PyFloat(FALSE, 2997, 2)

C7_Witness ==
    /\ Returned
    /\ ReachedRate
    /\ VideoStream.r_frame_rate = NtscRate
    /\ xout.meta.fps = PyFloat(FALSE, 2997, 2)

\* C8 as stated: when the rate string is not two integers "n/d" with d # 0,
\* fps of the returned record is 0 and nothing propagates.
C8_MalformedRateGivesZero ==
    (xpc = "done" /\ ReachedRate /\ VideoStream.r_frame_rate.t = "str"
        /\ ~RateIsFraction) =>
        /\ xout.raised = "none"
        /\ xout.meta.fps = PyInt(0)

\* C8 amended: nothing propagates; fps is the int 0 when the split does not
\* give two parts or the denominator is an integer equal to 0; when there are
\* two parts and the denominator is not an integer, or it is a nonzero integer
\* and the numerator is not an integer, the ValueError is caught and logged,
\* and fps stays None (has_audio stays 0).
C8_MalformedRateZeroOrNone ==
    (xpc = "done" /\ ReachedRate /\ VideoStream.r_frame_rate.t = "str"
        /\ ~RateIsFraction) =>
        /\ xout.raised = "none"
        /\ IF Len(RateParts) # 2
              \/ (IsIntText(RateParts[2]) /\ IntValue(RateParts[2]) = 0)
           THEN /\ xout.meta.fps = PyInt(0)
                /\ xout.log = <<>>
           ELSE /\ xout.meta.fps = PyNone
                /\ xout.meta.has_audio = PyInt(0)
                /\ Len(xout.log) = 1
                /\ xout.log[1].detail = "ValueError"

C8_Witness ==
    /\ Returned
    /\ ReachedRate
    /\ VideoStream.r_frame_rate = JStr(<<"4", "/", "0">>)
    /\ xout.meta.fps = PyInt(0)

\* C10: when an error is caught, the returned record holds the converted value
\* of every field that precedes the failing one in the order duration,
\* bitrate, width, height, fps, has_audio, and the defaults (None, and 0 for
\* has_audio) for the failing field and all after it; a failure of the
\* subprocess call or of the parse leaves all defaults.
C10_PrefixOfFieldsKept ==
    (Returned /\ xout.log # <<>>) =>
        LET m == xout.meta
            d0 == MetaDefaults
        IN  IF xin.kind # "parsed" THEN m = d0
            ELSE IF DurationConv.exc # "none" THEN m = d0
            ELSE IF BitrateConv.exc # "none"
                 THEN m = [d0 EXCEPT !.duration = DurationConv.v]
            ELSE /\ HasVideoStream
                 /\ m.duration = DurationConv.v
                 /\ m.bitrate = BitrateConv.v
                 /\ m.has_audio = PyInt(0)
                 /\ m.fps = PyNone
                 /\ IF WidthConv.exc # "none"
                    THEN m.width = PyNone /\ m.height = PyNone
                    ELSE /\ m.width = WidthConv.v
                         /\ IF HeightConv.exc # "none"
                            THEN m.height = PyNone
                            ELSE m.height = HeightConv.v

C10_Witness ==
    /\ Returned
    /\ xout.log # <<>>
    /\ ParsedObject
    /\ HasAudioStream
    /\ HasVideoStream
    /\ BitrateConv.exc = "ValueError"
    /\ xout.meta = [MetaDefaults EXCEPT !.duration = PyFloat(FALSE, 125, 1)]

====
